---- MODULE Spec2Model ----
(***************************************************************************)
(* Model of app.py ("Break This Agent Challenge"): a Streamlit script that *)
(* keeps two chat sessions ('buggy' and 'improved') in st.session_state,   *)
(* caps each at max_messages turns, freezes a session when the completion  *)
(* call raises, and broadcasts a challenge-button text to both sessions    *)
(* through the auto_send_message / showing_auto_message / auto_sent_<a>    *)
(* keys.                                                                   *)
(*                                                                         *)
(* One step of the model is one run of the script from top to bottom (or   *)
(* up to the st.rerun() that aborts it).  A run is started by one widget   *)
(* event (a challenge button, a chat input, a clear button) or by a        *)
(* pending st.rerun().                                                     *)
(***************************************************************************)
EXTENDS Integers, Sequences, FiniteSets, TLC

\* ---------------------------------------------------------------- constants

\* app.py:94 and 199-200: the two agents, in the order they are rendered.
Agents == {"buggy", "improved"}
AgentOrder == <<"buggy", "improved">>

\* app.py:63-69
challenge_inputs ==
    << "Help me with my purple resume that tastes like Tuesday",
       "Make it better",
       "HELP ME NOW URGENT!!!",
       "Can you help me become a unicorn trainer?",
       "" >>

\* app.py:98 and 195
DefaultMaxMessages == 20

\* app.py:185
rate_limit_message ==
    "Sorry, I can't respond right now. Too many people are using this demo!"

\* Python's None (app.py:131, what st.chat_input returns when nothing was typed).
None == "<None>"

\* A key that is not in st.session_state.
Absent == "<absent>"

\* The completion call raising (app.py:183).
APIError == "<exception>"

\* ------------------------------------------------------------------- bounds

\* Number of challenge-button clicks in one behaviour.
MaxTriggers == 1

\* Number of chat inputs submitted after the first challenge-button click
\* (before it, chat inputs are not bounded: a session can be driven to its cap).
MaxTypedAfter == 1

\* Texts a visitor types into st.chat_input (it never submits an empty text).
TypedTexts == {"hi"}

\* Texts the completion call streams back.
Responses == {"response"}

ApiResults == Responses \cup {APIError}

\* -------------------------------------------------------------------- state

VARIABLES
    messages,              \* st.session_state[f"{agent}_messages"]
    max_messages,          \* st.session_state[f"{agent}_max_messages"]
    auto_send_message,     \* st.session_state.auto_send_message, or Absent
    showing_auto_message,  \* 'showing_auto_message' in st.session_state
    auto_sent,             \* f"auto_sent_{agent}" in st.session_state
    rerun_requested,       \* the last run ended in st.rerun()
    input_shown,           \* the last run rendered the agent's st.chat_input
    outcome,               \* what the last run did in each agent's column
    triggers,              \* history: the texts of the challenge clicks so far
    delivered,             \* history: per agent, the clicks whose text it consumed
    successes,             \* history: per agent, completions since the last clear
    fresh,                 \* history: per agent, cleared and given no input since
    typed_after            \* history: chat inputs since the first challenge click

vars == << messages, max_messages, auto_send_message, showing_auto_message,
           auto_sent, rerun_requested, input_shown, outcome, triggers,
           delivered, successes, fresh, typed_after >>

\* The session state a script run starts from.
Cur ==
    [ messages |-> messages,
      max_messages |-> max_messages,
      auto_send_message |-> auto_send_message,
      showing_auto_message |-> showing_auto_message,
      auto_sent |-> auto_sent,
      rerun |-> FALSE,
      input_shown |-> input_shown,
      outcome |-> [a \in Agents |-> "none"],
      triggers |-> triggers,
      delivered |-> delivered,
      successes |-> successes,
      fresh |-> fresh ]

\* The widget event that starts a run: the challenge button clicked (0: none),
\* the chat input submitted and the clear button clicked (None: none).
NoEvent == [button |-> 0, chat |-> None, text |-> None, clear |-> None]

\* ------------------------------------------------------- the script, by part

UserTurn(prompt) == [role |-> "user", content |-> prompt]

AssistantTurn(response) == [role |-> "assistant", content |-> response]

ApologyTurn == [role |-> "assistant", content |-> rate_limit_message]

\* The limit check with > for >=: a session holding exactly its limit is let in.
AtLimitStrict(msgs, max) == Len(msgs) > max

\* The limit check comparing with the default cap only: a lowered limit is ignored.
AtLimitDefaultOnly(msgs, max) == Len(msgs) >= DefaultMaxMessages

\* app.py:127
AtLimit(msgs, max) == Len(msgs) >= max

\* The prompt tested for truth ("if prompt:"): the empty string counts as no prompt.
HasPromptTruthy(prompt) == prompt # None /\ prompt # ""

\* app.py:151
HasPrompt(prompt) == prompt # None

\* app.py:71-80
ClickButtons(s, button) ==
    IF button = 0
    THEN s
    ELSE [s EXCEPT !.auto_send_message = challenge_inputs[button],
                   !.triggers = Append(@, challenge_inputs[button]),
                   !.fresh = [a \in Agents |-> FALSE]]

\* app.py:83-88
ShowAutoMessage(s) ==
    IF s.auto_send_message # Absent /\ ~s.showing_auto_message
    THEN [s EXCEPT !.showing_auto_message = TRUE, !.rerun = TRUE]
    ELSE s

\* The clean-up deleting the flags but not the pending text.
CleanupKeepsText(s) ==
    IF \A b \in Agents : s.auto_sent[b]
    THEN [s EXCEPT !.showing_auto_message = FALSE,
                   !.auto_sent = [b \in Agents |-> FALSE]]
    ELSE s

\* app.py:138-144
Cleanup(s) ==
    IF \A b \in Agents : s.auto_sent[b]
    THEN [s EXCEPT !.auto_send_message = Absent,
                   !.showing_auto_message = FALSE,
                   !.auto_sent = [b \in Agents |-> FALSE]]
    ELSE s

\* app.py:131-144: the prompt taken from the broadcast, and the state after.
AutoSend(s, a) ==
    IF s.auto_send_message # Absent /\ ~s.auto_sent[a]
    THEN [ prompt |-> s.auto_send_message,
           s |-> Cleanup([s EXCEPT !.auto_sent[a] = TRUE,
                                   !.delivered[a] = Append(@, Len(s.triggers))]) ]
    ELSE [ prompt |-> None, s |-> s ]

\* app.py:184
FreezeLimit(msgs) == Len(msgs)

\* The failure branch freezing the session without appending the apology.
RespondNoApology(s, a, prompt, api) ==
    LET s1 == [s EXCEPT !.messages[a] = Append(@, UserTurn(prompt))]
    IN  IF api # APIError
        THEN [s1 EXCEPT !.messages[a] = Append(@, AssistantTurn(api)),
                        !.outcome[a] = "delivered",
                        !.successes[a] = @ + 1]
        ELSE [s1 EXCEPT !.max_messages[a] = FreezeLimit(s1.messages[a]),
                        !.outcome[a] = "failed",
                        !.rerun = TRUE]

\* app.py:151-190
Respond(s, a, prompt, api) ==
    LET s1 == [s EXCEPT !.messages[a] = Append(@, UserTurn(prompt))]
    IN  IF api # APIError
        THEN [s1 EXCEPT !.messages[a] = Append(@, AssistantTurn(api)),
                        !.outcome[a] = "delivered",
                        !.successes[a] = @ + 1]
        ELSE [s1 EXCEPT !.max_messages[a] = FreezeLimit(s1.messages[a]),
                        !.messages[a] = Append(@, ApologyTurn),
                        !.outcome[a] = "failed",
                        !.rerun = TRUE]

\* app.py:126-190
ChatSection(s, a, typed, api) ==
    IF AtLimit(s.messages[a], s.max_messages[a])
    THEN [s EXCEPT !.outcome[a] = "limit", !.input_shown[a] = FALSE]
    ELSE LET auto == AutoSend(s, a)
             prompt == IF auto.prompt = None THEN typed ELSE auto.prompt
             s1 == [auto.s EXCEPT !.input_shown[a] = (auto.prompt = None)]
         IN  IF HasPrompt(prompt)
             THEN Respond(s1, a, prompt, api)
             ELSE [s1 EXCEPT !.outcome[a] = "idle"]

\* The clear button emptying the history but leaving the limit as it is.
ClearChatKeepsLimit(s, a) ==
    [s EXCEPT !.messages[a] = << >>,
              !.rerun = TRUE,
              !.successes[a] = 0,
              !.fresh[a] = TRUE]

\* app.py:193-196
ClearChat(s, a) ==
    [s EXCEPT !.messages[a] = << >>,
              !.max_messages[a] = DefaultMaxMessages,
              !.rerun = TRUE,
              !.successes[a] = 0,
              !.fresh[a] = TRUE]

\* app.py:100-196
create_chat_interface(s, a, ev, api) ==
    LET typed == IF ev.chat = a THEN ev.text ELSE None
        s1 == ChatSection(s, a, typed, api[a])
    IN  IF s1.rerun THEN s1
        ELSE IF ev.clear = a THEN ClearChat(s1, a) ELSE s1

\* app.py:71-200: one run of the script.
Script(s, ev, api) ==
    LET s0 == IF ev.chat = None THEN s ELSE [s EXCEPT !.fresh[ev.chat] = FALSE]
        s1 == ShowAutoMessage(ClickButtons(s0, ev.button))
        s2 == IF s1.rerun THEN s1
              ELSE create_chat_interface(s1, AgentOrder[1], ev, api)
    IN  IF s2.rerun THEN s2
        ELSE create_chat_interface(s2, AgentOrder[2], ev, api)

\* ------------------------------------------------------------------ actions

\* app.py:94-98: the state once the script has run for the first time.
Init ==
    /\ messages = [a \in Agents |-> << >>]
    /\ max_messages = [a \in Agents |-> DefaultMaxMessages]
    /\ auto_send_message = Absent
    /\ showing_auto_message = FALSE
    /\ auto_sent = [a \in Agents |-> FALSE]
    /\ rerun_requested = FALSE
    /\ input_shown = [a \in Agents |-> TRUE]
    /\ outcome = [a \in Agents |-> "idle"]
    /\ triggers = << >>
    /\ delivered = [a \in Agents |-> << >>]
    /\ successes = [a \in Agents |-> 0]
    /\ fresh = [a \in Agents |-> TRUE]
    /\ typed_after = 0

Run(ev) ==
    \E api \in [Agents -> ApiResults] :
        LET s == Script(Cur, ev, api)
        IN  \* a result is drawn only for a completion call the run makes
            /\ \A a \in Agents :
                  s.outcome[a] \in {"delivered", "failed"} \/ api[a] = APIError
            /\ messages' = s.messages
            /\ max_messages' = s.max_messages
            /\ auto_send_message' = s.auto_send_message
            /\ showing_auto_message' = s.showing_auto_message
            /\ auto_sent' = s.auto_sent
            /\ rerun_requested' = s.rerun
            /\ input_shown' = s.input_shown
            /\ outcome' = s.outcome
            /\ triggers' = s.triggers
            /\ delivered' = s.delivered
            /\ successes' = s.successes
            /\ fresh' = s.fresh

\* A challenge button is clicked (app.py:71-80).
ClickChallenge(i) ==
    /\ ~rerun_requested
    /\ Len(triggers) < MaxTriggers
    /\ Run([NoEvent EXCEPT !.button = i])
    /\ UNCHANGED typed_after

\* A text is submitted in an agent's chat input (app.py:148).
ChatInput(a, text) ==
    /\ ~rerun_requested
    /\ input_shown[a]
    /\ triggers = << >> \/ typed_after < MaxTypedAfter
    /\ Run([NoEvent EXCEPT !.chat = a, !.text = text])
    /\ typed_after' = IF triggers = << >> THEN 0 ELSE typed_after + 1

\* An agent's clear button is clicked (app.py:193).
ClickClear(a) ==
    /\ ~rerun_requested
    /\ Run([NoEvent EXCEPT !.clear = a])
    /\ UNCHANGED typed_after

\* The run that st.rerun() starts (app.py:88, 190, 196); no widget fires in it.
Rerun ==
    /\ rerun_requested
    /\ Run(NoEvent)
    /\ UNCHANGED typed_after

Next ==
    \/ \E i \in 1..Len(challenge_inputs) : ClickChallenge(i)
    \/ \E a \in Agents, text \in TypedTexts : ChatInput(a, text)
    \/ \E a \in Agents : ClickClear(a)
    \/ Rerun

Spec == Init /\ [][Next]_vars

\* --------------------------------------------------------------- properties

Count(seq, x) == Cardinality({i \in DOMAIN seq : seq[i] = x})

Last(seq) == seq[Len(seq)]

Pending(a) == auto_send_message # Absent /\ ~auto_sent[a]

\* C1: once a run has completed with no rerun pending, each session's history
\* is no longer than its limit: Len(messages[a]) <= max_messages[a].
LengthWithinLimit ==
    ~rerun_requested => \A a \in Agents : Len(messages[a]) <= max_messages[a]

\* C2: right after a run in which an agent's completion call failed, the
\* agent's limit equals the length of its history, apology included.
FailureSetsLimitToLength ==
    \A a \in Agents :
        outcome[a] = "failed" => max_messages[a] = Len(messages[a])

\* C3: once the runs a challenge click causes have all completed (no rerun is
\* pending), each session has consumed the text of every click exactly once.
BroadcastReachesBoth ==
    ~rerun_requested =>
        \A a \in Agents : \A id \in 1..Len(triggers) : Count(delivered[a], id) = 1

\* C4: no session consumes the text of one click twice; once both sessions
\* have consumed the latest click, the pending text, the banner flag and the
\* per-session flags are gone; and a run that starts with no pending text and
\* has no new click delivers nothing to either session.
NoReplayState ==
    /\ \A a \in Agents : \A id \in 1..Len(triggers) : Count(delivered[a], id) <= 1
    /\ (triggers # << >> /\ \A a \in Agents : Count(delivered[a], Len(triggers)) = 1)
          => /\ auto_send_message = Absent
             /\ ~showing_auto_message
             /\ \A a \in Agents : ~auto_sent[a]

NoReplayStep ==
    (auto_send_message = Absent /\ triggers' = triggers) => delivered' = delivered

NoReplay == [](NoReplayState) /\ [][NoReplayStep]_vars

\* C4 witness: both sessions consumed a click, and a later run delivered nothing.
NoReplayWitness ==
    /\ ~rerun_requested
    /\ triggers # << >>
    /\ \A a \in Agents : Count(delivered[a], Len(triggers)) = 1
    /\ \A a \in Agents : outcome[a] = "idle"

\* C5: in every session the turns alternate, user first: odd positions are
\* user turns and even positions assistant turns; after a failed call the
\* history ends with the user turn followed by the apology.
Alternates ==
    \A a \in Agents :
        /\ \A i \in 1..Len(messages[a]) :
              messages[a][i].role = IF i % 2 = 1 THEN "user" ELSE "assistant"
        /\ outcome[a] = "failed" =>
              /\ Len(messages[a]) >= 2
              /\ Last(messages[a]).content = rate_limit_message

\* C5 witness: a call failed in a session that already held a full round.
AlternatesWitness ==
    \E a \in Agents : outcome[a] = "failed" /\ Len(messages[a]) >= 4

\* C6: a run that starts with a session at its limit, other than a click of
\* that session's clear button, makes no completion call for the session and
\* leaves its history and its limit unchanged.
AtLimitNoOpStep ==
    \A a \in Agents :
        (Len(messages[a]) >= max_messages[a] /\ ~ClickClear(a)) =>
            /\ messages'[a] = messages[a]
            /\ max_messages'[a] = max_messages[a]
            /\ outcome'[a] \notin {"delivered", "failed"}

AtLimitNoOp == [][AtLimitNoOpStep]_vars

\* C6 witness: a session at the 20-turn cap was rendered while a broadcast it
\* has not consumed is pending.
AtLimitNoOpWitness ==
    \E a \in Agents :
        /\ ~rerun_requested
        /\ Len(messages[a]) = DefaultMaxMessages
        /\ outcome[a] = "limit"
        /\ Pending(a)

\* C7: a click of a session's clear button leaves its history empty and its
\* limit 20, so that the session is below its limit.
ClearResetsStep ==
    \A a \in Agents :
        ClickClear(a) =>
            /\ messages'[a] = << >>
            /\ max_messages'[a] = 20
            /\ Len(messages'[a]) < max_messages'[a]

EmptyIsInputStep ==
    \A a \in Agents :
        (delivered'[a] # delivered[a] /\ triggers'[Last(delivered'[a])] = "") =>
            /\ Len(messages'[a]) = Len(messages[a]) + 2
            /\ SubSeq(messages'[a], 1, Len(messages[a])) = messages[a]
            /\ messages'[a][Len(messages[a]) + 1] = [role |-> "user", content |-> ""]
            /\ messages'[a][Len(messages[a]) + 2].role = "assistant"
            /\ outcome'[a] \in {"delivered", "failed"}
            /\ outcome'[a] = "delivered" => max_messages'[a] = max_messages[a]

EmptyIsInput == [][EmptyIsInputStep]_vars

\* C8 witness: a cleared session that consumed the empty broadcast holds the
\* empty user turn and the reply, with its limit still 20.
EmptyIsInputWitness ==
    \E a \in Agents :
        /\ delivered[a] # << >>
        /\ messages[a] = << [role |-> "user", content |-> ""],
                            [role |-> "assistant", content |-> "response"] >>
        /\ max_messages[a] = 20

\* C9: a session with no failed call since its last clear holds two turns per
\* successful call; it never completes more than 10 calls and its history
\* never exceeds 20 turns.
CapAtTwenty ==
    \A a \in Agents :
        /\ Len(messages[a]) <= 20
        /\ successes[a] <= 10
        /\ max_messages[a] = 20 => Len(messages[a]) = 2 * successes[a]

\* C9 witness: after 10 successful calls a further run found the session at
\* its limit, with 20 turns.
CapAtTwentyWitness ==
    \E a \in Agents :
        /\ successes[a] = 10
        /\ Len(messages[a]) = 20
        /\ max_messages[a] = 20
        /\ outcome[a] = "limit"

\* C10: a session that was cleared and has been given no input since (no chat
\* input to it, no challenge click) has an empty history.
StaysEmptyAfterClear ==
    \A a \in Agents : fresh[a] => messages[a] = << >>

====
